---- MODULE Spec2Model ----
(***************************************************************************)
(* Model of the in-page word helper of engageai_core/static/js/script.js:  *)
(* the click lookup (resolver, single-entry cache, asynchronous fetch),    *)
(* the overlay panel helperEl, the dismissal listener, the hover           *)
(* highlighter and the modal dialog's keydown listener.                    *)
(*                                                                         *)
(* Strings are sequences of one-character strings; offsets are 0-based as  *)
(* in the source, so the JavaScript text[i] is written CharAt(text, i).    *)
(*                                                                         *)
(* Spec is the click lookup on its own (click, fetch and body settling);   *)
(* SpecPage adds the keyboard, the modal dialog and the hover highlighter. *)
(* Bodies of ok responses are DefinitionData objects, as the lookup        *)
(* endpoint answers them.                                                  *)
(***************************************************************************)
EXTENDS Integers, Sequences, FiniteSets, TLC

(* ------------------------------ bounds --------------------------------- *)

\* largest number of fetches outstanding at once
MaxInFlight == 2

\* largest number of fetches outstanding at once when the whole page is
\* modelled (lookup, dismissal, keyboard, modal and hover together)
MaxPageInFlight == 1

\* largest number of child nodes of the surface (every wrap splits a text
\* node and nothing merges the pieces again)
MaxNodes == 3

(* --------------------------- characters -------------------------------- *)

LowerLetters == {"a", "b", "c", "d"}
UpperLetters == {"A", "B"}
OtherWordChars == {"7", "_"}
NonWordChars == {" ", ","}

\* the character class \w of the regular expression /\w/
WordChars == LowerLetters \cup UpperLetters \cup OtherWordChars

\* String.prototype.toLowerCase on one character
LowerChar(c) ==
    CASE c = "A" -> "a"
      [] c = "B" -> "b"
      [] OTHER -> c

\* String.prototype.toLowerCase
toLowerCase(s) == [i \in 1..Len(s) |-> LowerChar(s[i])]

\* text.slice(start, end) for 0 <= start <= end <= text.length
slice(text, start, end) == SubSeq(text, start + 1, end)

\* text[i]; the empty sequence stands for undefined (index out of range)
CharAt(text, i) == IF i >= 0 /\ i < Len(text) THEN <<text[i + 1]>> ELSE <<>>

\* /\w/.test(text[i]): an undefined argument is converted to the string
\* "undefined", which contains word characters, so the test is true
testW(text, i) ==
    IF CharAt(text, i) = <<>> THEN TRUE ELSE CharAt(text, i)[1] \in WordChars

(* ----------------------- word boundary scans --------------------------- *)

RECURSIVE scanLeft(_, _)
\* while (start > 0 && /\w/.test(text[start - 1])) start--;
scanLeft(text, start) ==
    IF start > 0 /\ testW(text, start - 1) THEN scanLeft(text, start - 1) ELSE start

RECURSIVE scanRight(_, _)
\* while (end < text.length && /\w/.test(text[end])) end++;
scanRight(text, end) ==
    IF end < Len(text) /\ testW(text, end) THEN scanRight(text, end + 1) ELSE end

\* the scan to the left left out: the word starts at the caret
clickWordFromCaret(text, offset) ==
    toLowerCase(slice(text, offset, scanRight(text, offset)))

\* the word the click listener computes from a text and a caret offset
clickWord(text, offset) ==
    toLowerCase(slice(text, scanLeft(text, offset), scanRight(text, offset)))

\* shortest word the click listener looks up (word.length < 2 returns)
MinWordLen == 2

\* the length test left out: every non-empty word is looked up
clickResolvesAnyLength(text, offset) ==
    text # <<>> /\ clickWord(text, offset) # <<>>

\* the click listener goes on to the cache check: the text is not empty and
\* the word has at least 2 characters
clickResolves(text, offset) ==
    /\ text # <<>>
    /\ clickWord(text, offset) # <<>>
    /\ ~(Len(clickWord(text, offset)) < MinWordLen)

(* ------------------------- definition data ----------------------------- *)

\* bodies the lookup endpoint answers for a word: one with a single sense
\* and no pronunciation, one with three senses and two pronunciations of
\* which only the first has an audio_url
Defs(w) ==
    { [word |-> w, pos |-> "", ipa |-> "", senses |-> <<"g1">>,
       pronunciations |-> <<>>],
      [word |-> w, pos |-> "noun", ipa |-> "ipa",
       senses |-> <<"g1", "g2", "g3">>, pronunciations |-> <<"u1", "">>] }

\* helperEl.innerHTML before the first showHelper
EmptyHtml ==
    [word |-> <<>>, pos |-> "", ipa |-> "", list |-> FALSE, items |-> <<>>,
     audio |-> ""]

\* number of senses showHelper lists: data.senses.slice(0, 2)
MaxGlosses == 2

\* the first pronunciation that has an audio url is taken
audioUrlFirstAvailable(data) ==
    LET withUrl == { i \in 1..Len(data.pronunciations) :
                       data.pronunciations[i] # "" }
    IN  IF withUrl = {} THEN ""
        ELSE data.pronunciations[CHOOSE i \in withUrl :
                                    \A j \in withUrl : i <= j]

\* data.pronunciations?.[0]?.audio_url || null ("" stands for null)
audioUrl(data) ==
    IF Len(data.pronunciations) >= 1 THEN data.pronunciations[1] ELSE ""

\* the senses not truncated: every gloss is listed
renderHtmlAllSenses(data) ==
    [word |-> data.word,
     pos |-> data.pos,
     ipa |-> data.ipa,
     list |-> Len(data.senses) > 0,
     items |-> data.senses,
     audio |-> audioUrl(data)]

\* the html showHelper builds from the data
renderHtml(data) ==
    [word |-> data.word,
     pos |-> data.pos,
     ipa |-> data.ipa,
     list |-> Len(data.senses) > 0,
     items |-> IF Len(data.senses) > MaxGlosses
               THEN SubSeq(data.senses, 1, MaxGlosses) ELSE data.senses,
     audio |-> audioUrl(data)]

\* distance of the panel from the click point and from the window edge
Margin == 10

\* the test made with >= : a panel that just fits is moved as well
clampPosAtEdge(x, w, inner) ==
    IF x + Margin + w >= inner THEN inner - w - Margin ELSE x + Margin

\* left (or top) of the panel for click coordinate x, panel extent w and
\* window extent inner
clampPos(x, w, inner) ==
    IF x + Margin + w > inner THEN inner - w - Margin ELSE x + Margin

(* ------------------------------ document ------------------------------- *)

\* a surface's child nodes: text nodes and the highlight span, whose own
\* children are text nodes
TextNode(t) == [kind |-> "text", data |-> t, kids |-> <<>>]
SpanNode(ks) == [kind |-> "span", data |-> <<>>, kids |-> ks]

\* the text nodes of the surface: <<i, 0>> is child i, <<i, j>> is child j
\* of the span at i
TextPaths(d) ==
    {<<i, 0>> : i \in {k \in 1..Len(d) : d[k].kind = "text"}}
    \cup
    UNION {{<<i, j>> : j \in 1..Len(d[i].kids)} :
              i \in {k \in 1..Len(d) : d[k].kind = "span"}}

\* node.textContent of a text node
TextAt(d, p) == IF p[2] = 0 THEN d[p[1]].data ELSE d[p[1]].kids[p[2]]

RECURSIVE Concat(_)
Concat(ss) == IF ss = <<>> THEN <<>> ELSE Head(ss) \o Concat(Tail(ss))

\* activeSpan.textContent
spanTextContent(d, i) == Concat(d[i].kids)

\* the surface's textContent
RECURSIVE surfaceText(_)
surfaceText(d) ==
    IF d = <<>> THEN <<>>
    ELSE (IF Head(d).kind = "text" THEN Head(d).data ELSE Concat(Head(d).kids))
         \o surfaceText(Tail(d))

\* replace child i of d by the nodes ns
Splice(d, i, ns) == SubSeq(d, 1, i - 1) \o ns \o SubSeq(d, i + 1, Len(d))

\* clearActive forgetting the span without removing it
clearActiveKeepsSpan(d, as) == d

\* clearActive: the span's children are moved in front of it and the span is
\* removed; nothing is merged
clearActive(d, as) ==
    IF as = <<>> THEN d
    ELSE Splice(d, as[1], [j \in 1..Len(d[as[1]].kids) |-> TextNode(d[as[1]].kids[j])])

\* where the text node at path p is after clearActive
pathAfterClear(d, as, p) ==
    IF as = <<>> THEN p
    ELSE IF p[2] # 0 THEN <<as[1] + p[2] - 1, 0>>
    ELSE IF p[1] > as[1] THEN <<p[1] + Len(d[as[1]].kids) - 1, 0>>
    ELSE p

\* the wrapped text copied into the span and left in the text node as well
surroundContentsCopies(d, i, start, end) ==
    Splice(d, i,
           << TextNode(slice(d[i].data, 0, start)),
              SpanNode(IF start = end THEN <<>>
                       ELSE <<slice(d[i].data, start, end)>>),
              TextNode(slice(d[i].data, start, Len(d[i].data))) >>)

\* only the first character of the range wrapped: the text node is split
\* inside the word
surroundContentsFirstChar(d, i, start, end) ==
    Splice(d, i,
           << TextNode(slice(d[i].data, 0, start)),
              SpanNode(IF start = end THEN <<>>
                       ELSE <<slice(d[i].data, start, start + 1)>>),
              TextNode(slice(d[i].data,
                             IF start = end THEN end ELSE start + 1,
                             Len(d[i].data))) >>)

\* wordRange.surroundContents(span) for the range [start, end) of the text
\* node that is child i: the range's text is extracted, the node is split
\* at start and the span, holding the extracted text, is inserted before the
\* second half; a collapsed range extracts nothing and the span stays empty
surroundContents(d, i, start, end) ==
    Splice(d, i,
           << TextNode(slice(d[i].data, 0, start)),
              SpanNode(IF start = end THEN <<>>
                       ELSE <<slice(d[i].data, start, end)>>),
              TextNode(slice(d[i].data, end, Len(d[i].data))) >>)

(* ------------------------------- state --------------------------------- *)

VARIABLES
    lastWordCache,  \* <<>> for null, else <<[word, data]>>
    helperDisplay,  \* helperEl.style.display: "none" or "block"
    helperHtml,     \* helperEl.innerHTML as the record renderHtml builds
    helperPos,      \* <<>> before the first show, else <<top, left>>
    inflight,       \* the click listeners suspended at an await, oldest first
    dom,            \* the child nodes of the annotated surface
    activeSpan,     \* <<>> for null, else <<i>>: the span is child i of dom
    modalOpen,      \* modal.classList.contains("modal--open")
    viewport,       \* <<window.innerWidth, window.innerHeight>>
    hist,           \* history: the words of the two most recent lookups,
                    \* how the most recent one ended ("pending", "hit",
                    \* "ok", "fail"), whether a fetch of an older lookup has
                    \* succeeded since, whether any fetch has succeeded;
                    \* dism is the panel's content when a click last
                    \* dismissed it while it was visible, and dismState
                    \* tells what has happened since: nothing ("clean"),
                    \* a successful fetch ("touched", only the word of
                    \* dism is kept), or the next lookup, which resolved
                    \* the dismissed word and was the last step
                    \* ("relookClean", "relookTouched")
    lastEvent,      \* history: the step taken last; flag is, for a lookup
                    \* click, lastCached before the click, for a dismissing
                    \* click, that the panel was hidden already, for a fetch
                    \* step, that the request is not the most recent
                    \* lookup's and, for a mousemove, that an exception
                    \* left the listener
    probe,          \* the input of a resolver studied on its own (a text,
                    \* the character under the pointer, the caret offset)
                    \* with its result; text is also the surface's text
                    \* before any hover.  When showHelper is studied on its
                    \* own, its input instead.
    poller,         \* the assessment-status poller: whether #refresh-status
                    \* exists, isRequestInFlight, pollingInterval (TRUE
                    \* for an interval id, FALSE for null), whether the
                    \* initial timeout is still to fire, the status
                    \* requests outstanding (each at "fetch" or "json"),
                    \* whether the page has been told to navigate, and
                    \* history: the number of requests issued and the
                    \* status that should have stopped the polling
    nav,            \* the mobile menu: nav.isOpen and whether .nav__mobile
                    \* carries the class nav__mobile_open
    theme           \* the theme switcher: whether it is constructed,
                    \* currentTheme, localStorage's 'theme' (<<>> for
                    \* null, else <<t>>), the data-theme attribute, whether
                    \* the system prefers dark, the number of theme
                    \* notifications on the page, and history: whether
                    \* a theme was saved at load and whether the user
                    \* has chosen a theme since

lookupVars == <<lastWordCache, helperDisplay, helperHtml, helperPos, inflight>>
hoverVars == <<dom, activeSpan>>
pageVars == <<modalOpen, viewport>>
histVars == <<hist, lastEvent>>
widgetVars == <<poller, nav, theme>>
vars == <<lastWordCache, helperDisplay, helperHtml, helperPos, inflight,
          dom, activeSpan, modalOpen, viewport, hist, lastEvent, probe,
          poller, nav, theme>>

\* texts of the annotated surface
SurfaceTexts == { <<"A", "b", ",", " ", "c", "d">> }

\* click coordinates (clientX, clientY)
Points == { <<25, 25>> }

\* sizes <<width, height>> the layout gives the panel
PanelSizes == { <<20, 10>> }

\* window sizes
Viewports == { <<40, 30>> }

NoData == [word |-> <<>>, pos |-> "", ipa |-> "", senses |-> <<>>,
           pronunciations |-> <<>>]

\* a history record of one step
Event(kind, target, word, data, flag) ==
    [kind |-> kind, target |-> target, word |-> word, data |-> data,
     flag |-> flag]

\* no resolver input
NoProbe == [text |-> <<>>, glyph |-> 0, offset |-> 0, result |-> "",
            word |-> <<>>, hover |-> "", run |-> <<>>]

\* the poller on a page without [data-enrollment-id]: the handler returns
\* before it declares anything
NoPoller ==
    [refreshBtn |-> FALSE, isRequestInFlight |-> FALSE,
     pollingInterval |-> FALSE, initialTimeout |-> FALSE, requests |-> <<>>,
     navigated |-> FALSE, issued |-> 0, stopStatus |-> ""]

\* the menu on a page without .nav__burger or .nav__mobile: nav.init returns
\* before it adds a listener
NoNav == [present |-> FALSE, isOpen |-> FALSE, openClass |-> FALSE]

\* the theme switcher constructed with 'light' saved, the system preferring
\* light
LightTheme ==
    [built |-> TRUE, currentTheme |-> "light", saved |-> <<"light">>,
     attr |-> "light", systemDark |-> FALSE, chosen |-> FALSE,
     savedAtLoad |-> TRUE, notes |-> 0]

\* the page once DOMContentLoaded has run, the surface holding the single
\* text node t and the window having one of the sizes vps; pr is the input
\* on record
InitCore(t, pr, vps) ==
    /\ lastWordCache = <<>>
    /\ helperDisplay = "none"
    /\ helperHtml = EmptyHtml
    /\ helperPos = <<>>
    /\ inflight = <<>>
    /\ dom = <<TextNode(t)>>
    /\ activeSpan = <<>>
    /\ modalOpen = FALSE
    /\ viewport \in vps
    /\ hist = [lastWord |-> <<>>, prevWord |-> <<>>, status |-> "none",
               stale |-> FALSE, anyOk |-> FALSE, dism |-> EmptyHtml,
               dismState |-> "none"]
    /\ lastEvent = Event("init", "", <<>>, NoData, FALSE)
    /\ probe = pr

\* that page with no status poller and no mobile menu on it
InitPage(t, pr, vps) ==
    /\ InitCore(t, pr, vps)
    /\ poller = NoPoller
    /\ nav = NoNav
    /\ theme = LightTheme

InitWith(t, pr) == InitPage(t, pr, Viewports)

Init == \E t \in SurfaceTexts : InitWith(t, NoProbe)

(* --------------------------- click lookup ------------------------------ *)

\* what caretRangeFromPoint can answer: nothing, a position in an element,
\* or an offset in one of the surface's text nodes
NoPath == <<0, 0>>
Carets(d) ==
    { [kind |-> "null", path |-> NoPath, offset |-> 0],
      [kind |-> "element", path |-> NoPath, offset |-> 0] }
    \cup
    UNION { { [kind |-> "text", path |-> p, offset |-> o] :
                o \in 0..Len(TextAt(d, p)) } : p \in TextPaths(d) }

\* the comparison inverted: a hit when the cached word differs
cacheHitInverted(cache, word) == cache # <<>> /\ cache[1].word # word

\* the word not compared: any cached entry is a hit
cacheHitAnyWord(cache, word) == cache # <<>>

\* lastWordCache && lastWordCache.word === word
cacheHit(cache, word) == cache # <<>> /\ cache[1].word = word

\* where a click can land: in the annotated surface, in the panel, on the
\* open modal's close control, or anywhere else
ClickTargets == {"surface", "panel", "modalClose", "outside"}

\* the surface test left out: only clicks in the panel are spared
clickHidesOutsidePanel(target) == target # "panel"

\* the condition of the document click listener installed by click_handler:
\* !helperEl.contains(e.target) && !e.target.closest('.word-helper')
clickHides(target) == target # "panel" /\ target # "surface"

\* the dismissal toggling the panel: a hidden panel is shown again
dismissDisplayToggles(display) == IF display = "none" THEN "block" ELSE "none"

\* helperEl.style.display after the document click listener has hidden the
\* panel
dismissDisplay(display) == "none"

\* top and left as showHelper computes them
showPos(pt, size, vp) ==
    << clampPos(pt[2], size[2], vp[2]), clampPos(pt[1], size[1], vp[1]) >>

\* the requests already outstanding belong to older lookups
retire(reqs) == [i \in 1..Len(reqs) |-> [reqs[i] EXCEPT !.latest = FALSE]]

\* the most recent lookup has put its word in the cache, by a hit or by a
\* successful fetch, and no older fetch has succeeded since
lastCached == hist.status \in {"hit", "ok"} /\ ~hist.stale

NoCaret == [kind |-> "null", path |-> NoPath, offset |-> 0]

\* the surface's listener attached to document: it runs for every target
surfaceListensAnywhere(target) == TRUE

\* the click listener of world_helper is attached to the .word-helper
\* elements: it runs only for clicks whose target is in a surface
surfaceListens(target) == target = "surface"

\* the document click listener also forgets the cached entry
cacheAfterClickCleared(cache, target) ==
    IF clickHides(target) THEN <<>> ELSE cache

\* lastWordCache after a click event's listeners have run synchronously:
\* neither the dismissal nor the cache check assigns it
cacheAfterClick(cache, target) == cache

\* the dismissal history with no dismissal on record
undismissed(h) == [h EXCEPT !.dism = EmptyHtml, !.dismState = "none"]

\* the dismissal history after a click: a click that hides the visible
\* panel starts it, the next lookup ends it
dismissalAfterClick(h, target, found, word) ==
    IF clickHides(target) /\ helperDisplay = "block"
    THEN [h EXCEPT !.dism = helperHtml, !.dismState = "clean"]
    ELSE IF found /\ h.dismState \in {"clean", "touched"}
                 /\ h.dism.word = word
    THEN [h EXCEPT !.dismState = IF h.dismState = "clean"
                                 THEN "relookClean" ELSE "relookTouched"]
    ELSE IF found \/ h.dismState \in {"relookClean", "relookTouched"}
    THEN undismissed(h)
    ELSE h

\* a click event with at most maxReq fetches outstanding: the surface's
\* click listener runs first (the event bubbles from the target), then the
\* listeners on document; track tells whether the dismissal history is kept
ClickWith(maxReq, track) ==
    \E target \in ClickTargets :
      \E caret \in (IF surfaceListens(target)
                    THEN Carets(dom) ELSE {NoCaret}),
         pt \in Points, size \in PanelSizes :
        LET onText == surfaceListens(target) /\ caret.kind = "text"
            found == /\ onText
                     /\ clickResolves(TextAt(dom, caret.path), caret.offset)
            word == IF onText
                    THEN clickWord(TextAt(dom, caret.path), caret.offset)
                    ELSE <<>>
            hit == found /\ cacheHit(lastWordCache, word)
            miss == found /\ ~hit
        IN  /\ miss => Len(inflight) < maxReq
            /\ target = "modalClose" => modalOpen
            /\ target = "panel" => helperDisplay = "block"
            /\ lastWordCache' = cacheAfterClick(lastWordCache, target)
            /\ inflight' =
                  IF miss
                  THEN Append(retire(inflight),
                              [word |-> word, pt |-> pt, pc |-> "fetch",
                               ok |-> FALSE, latest |-> TRUE])
                  ELSE IF hit THEN retire(inflight) ELSE inflight
            /\ helperHtml' =
                  IF hit THEN renderHtml(lastWordCache[1].data) ELSE helperHtml
            /\ helperPos' =
                  IF hit THEN showPos(pt, size, viewport) ELSE helperPos
            /\ helperDisplay' =
                  IF clickHides(target) THEN dismissDisplay(helperDisplay)
                  ELSE IF hit THEN "block" ELSE helperDisplay
            /\ modalOpen' = IF target = "modalClose" THEN FALSE ELSE modalOpen
            /\ hist' =
                  LET h == IF found
                           THEN [hist EXCEPT !.lastWord = word,
                                             !.prevWord = hist.lastWord,
                                             !.status = IF hit THEN "hit"
                                                        ELSE "pending",
                                             !.stale = FALSE]
                           ELSE hist
                  IN  IF track
                      THEN dismissalAfterClick(h, target, found, word)
                      ELSE h
            /\ lastEvent' =
                  Event(IF hit THEN "click_hit"
                        ELSE IF miss THEN "click_fetch" ELSE "click",
                        target, word,
                        IF hit THEN lastWordCache[1].data ELSE NoData,
                        \/ found /\ lastCached
                        \/ clickHides(target) /\ helperDisplay = "none")
            /\ UNCHANGED <<dom, activeSpan, viewport, probe, widgetVars>>

Click == ClickWith(MaxInFlight, FALSE)

PageClick == ClickWith(MaxPageInFlight, FALSE)

\* a click event, with the dismissal history kept
TrackedClick == ClickWith(MaxInFlight, TRUE)

\* request i of reqs is over
Without(reqs, i) == SubSeq(reqs, 1, i - 1) \o SubSeq(reqs, i + 1, Len(reqs))

\* the dismissal history once a fetch has ended, in success or not
dismissalAfterFetch(h, ok) ==
    IF h.dismState \in {"relookClean", "relookTouched"}
    THEN undismissed(h)
    ELSE IF ok /\ h.dismState = "clean"
    THEN [h EXCEPT !.dism = [EmptyHtml EXCEPT !.word = h.dism.word],
                   !.dismState = "touched"]
    ELSE h

\* the lookup history once request r has ended in failure
histAfterFail(r) ==
    dismissalAfterFetch(
        IF r.latest THEN [hist EXCEPT !.status = "fail"] ELSE hist, FALSE)

\* the lookup history once request r has ended in success
histAfterOk(r) ==
    dismissalAfterFetch(
        IF r.latest
        THEN [hist EXCEPT !.status = "ok", !.stale = FALSE, !.anyOk = TRUE]
        ELSE [hist EXCEPT !.stale = TRUE, !.anyOk = TRUE], TRUE)

\* how the promise of fetch() settles: rejected (transport failure), or
\* resolved with a response whose ok flag is set (2xx) or not
FetchOutcomes == {"reject", "ok", "notok"}

\* the failure branches leave the panel as it is
failDisplayKeeps(display) == display

\* the failure branches show the panel (a "not found" message)
failDisplayShows(display) == "block"

\* helperEl.style.display after the else branch or the catch block
failDisplay(display) == "none"

\* await fetch(...) settles for request i: on rejection the catch block
\* hides the panel, otherwise the listener goes on to await res.json()
FetchSettle ==
    \E i \in 1..Len(inflight), outcome \in FetchOutcomes :
        /\ inflight[i].pc = "fetch"
        /\ IF outcome = "reject"
           THEN /\ helperDisplay' = failDisplay(helperDisplay)
                /\ inflight' = Without(inflight, i)
                /\ hist' = histAfterFail(inflight[i])
                /\ lastEvent' = Event("fetch_fail", "reject", inflight[i].word,
                                      NoData, ~inflight[i].latest)
           ELSE /\ helperDisplay' = helperDisplay
                /\ inflight' = [inflight EXCEPT ![i].pc = "json",
                                                ![i].ok = (outcome = "ok")]
                /\ hist' = dismissalAfterFetch(hist, FALSE)
                /\ lastEvent' = Event("fetch_res", outcome, inflight[i].word,
                                      NoData, ~inflight[i].latest)
        /\ UNCHANGED <<lastWordCache, helperHtml, helperPos>>
        /\ UNCHANGED <<hoverVars, pageVars, probe, widgetVars>>

\* res.ok not tested: every parsed body is stored and shown
storesResultAlways(r) == TRUE

\* the test of res.ok inverted
storesResultInverted(r) == ~r.ok

\* a request-generation guard: only the most recent lookup's result is used
storesResultLatestOnly(r) == r.ok /\ r.latest

\* a dismissal cancelling the outstanding lookups: a result that arrives
\* after the panel was dismissed, with no lookup since, is dropped
storesResultUnlessDismissed(r) ==
    r.ok /\ hist.dismState \notin {"clean", "touched"}

\* what the listener does once the body is parsed: true when it stores and
\* shows the data (if (res.ok) ...), false when it hides the panel
storesResult(r) == r.ok

\* the cache written only while it is empty
putCacheOnlyWhenEmpty(cache, word, data) ==
    IF cache = <<>> THEN <<[word |-> word, data |-> data]>> ELSE cache

\* the data shown without being stored
putCacheSkipped(cache, word, data) == cache

\* lastWordCache = { word, data }
putCache(cache, word, data) == <<[word |-> word, data |-> data]>>

\* the reason recorded for a fetch that ends at res.json() without success
jsonFailure(r, parsed) ==
    IF parsed THEN "notok" ELSE IF r.ok THEN "parse" ELSE "notok_parse"

\* await res.json() settles for request i: a body that does not parse
\* rejects and the catch block hides the panel; the parsed body of an ok
\* response is stored in the cache and shown, that of any other response
\* hides the panel.  The step is recorded as fetch_ok when the response was
\* ok and its body parsed, whatever the listener then does with it.
JsonSettle ==
    \E i \in 1..Len(inflight), parsed \in BOOLEAN, size \in PanelSizes :
      \E data \in Defs(inflight[i].word) :
        /\ inflight[i].pc = "json"
        /\ inflight' = Without(inflight, i)
        /\ IF parsed
           THEN IF storesResult(inflight[i])
                THEN /\ lastWordCache' =
                           putCache(lastWordCache, inflight[i].word, data)
                     /\ helperHtml' = renderHtml(data)
                     /\ helperDisplay' = "block"
                     /\ helperPos' = showPos(inflight[i].pt, size, viewport)
                ELSE /\ helperDisplay' = failDisplay(helperDisplay)
                     /\ UNCHANGED <<lastWordCache, helperHtml, helperPos>>
           ELSE /\ helperDisplay' = failDisplay(helperDisplay)
                /\ UNCHANGED <<lastWordCache, helperHtml, helperPos>>
        /\ IF parsed /\ inflight[i].ok
           THEN /\ hist' = histAfterOk(inflight[i])
                /\ lastEvent' = Event("fetch_ok", "", inflight[i].word, data,
                                      ~inflight[i].latest)
           ELSE /\ hist' = histAfterFail(inflight[i])
                /\ lastEvent' = Event("fetch_fail",
                                      jsonFailure(inflight[i], parsed),
                                      inflight[i].word, NoData,
                                      ~inflight[i].latest)
        /\ UNCHANGED <<hoverVars, pageVars, probe, widgetVars>>

(* ------------------------- modal and keyboard -------------------------- *)

\* openModal, called by the page's form flow
OpenModal ==
    /\ ~modalOpen
    /\ modalOpen' = TRUE
    /\ lastEvent' = Event("open_modal", "", <<>>, NoData, FALSE)
    /\ UNCHANGED <<lookupVars, hoverVars, viewport, hist, probe, widgetVars>>

Keys == {"Escape", "Enter"}

\* a keydown listener that hides the panel on Escape
displayAfterEscapeHides(key, display) ==
    IF key = "Escape" THEN "none" ELSE display

\* helperEl.style.display after a keydown: no keydown listener touches it
displayAfterKey(key, display) == display

\* a keydown event: the document listener closes the modal when the key is
\* Escape and the modal is open
Keydown ==
    \E key \in Keys :
        /\ modalOpen' = IF key = "Escape" /\ modalOpen THEN FALSE ELSE modalOpen
        /\ helperDisplay' = displayAfterKey(key, helperDisplay)
        /\ lastEvent' = Event("keydown", key, <<>>, NoData, FALSE)
        /\ UNCHANGED <<lastWordCache, helperHtml, helperPos, inflight>>
        /\ UNCHANGED <<hoverVars, viewport, hist, probe, widgetVars>>

(* ------------------------------- hover --------------------------------- *)

\* most child nodes of the surface when the hover is studied on its own
MaxHoverNodes == 5

\* the hover listener takes the caret as being over a word:
\* the negation of !text || !/\w/.test(text[offset])
hoverOnWord(text, offset) == text # <<>> /\ testW(text, offset)

\* the comparison left out: the word is wrapped again on every mousemove
sameWordNever(d, as, text, start, end) == FALSE

\* activeSpan && activeSpan.textContent === text.slice(start, end)
sameWord(d, as, text, start, end) ==
    as # <<>> /\ spanTextContent(d, as[1]) = slice(text, start, end)

\* what the pointer of a mousemove is over, told from the caret alone: no
\* text node, an empty text node, the end of a text node (no character
\* follows the caret), a character that is not a word character, or a word
\* character
caretClass(d, caret) ==
    IF caret.kind # "text" THEN "nontext"
    ELSE IF TextAt(d, caret.path) = <<>> THEN "empty"
    ELSE IF caret.offset >= Len(TextAt(d, caret.path)) THEN "end"
    ELSE IF TextAt(d, caret.path)[caret.offset + 1] \in NonWordChars
    THEN "nonword"
    ELSE "word"

\* the number of characters of the surface in front of child i
prefixLen(d, i) == Len(surfaceText(SubSeq(d, 1, i - 1)))

\* the caret's offset in the surface's text content
absOffset(d, caret) ==
    IF caret.kind # "text" THEN 0
    ELSE prefixLen(d, caret.path[1])
         + (IF caret.path[2] = 0 THEN 0
            ELSE Len(Concat(SubSeq(d[caret.path[1]].kids, 1,
                                   caret.path[2] - 1))))
         + caret.offset

\* where the caret is: in no text node, in a text node of the highlight
\* span, or in a text node outside it
caretWhere(caret) ==
    IF caret.kind # "text" THEN "none"
    ELSE IF caret.path[2] # 0 THEN "inspan" ELSE "outside"

\* how wordRange.surroundContents(span) ends
WrapOutcomes == {"ok", "throw"}

\* an exception thrown by surroundContents leaves the mousemove listener:
\* no try statement encloses the call
wrapFailureEscapes(outcome) == outcome = "throw"

\* a mousemove event over the surface, the surface having at most maxNodes
\* child nodes afterwards and surroundContents ending in one of outcomes;
\* observe tells whether the step is recorded with what the pointer was
\* over ("wrapfail" when the wrap was tried and threw) and with the caret's
\* place in the surface.  surroundContents
\* throws before it changes the document, after clearActive has run.
MousemoveWith(maxNodes, observe, outcomes) ==
    \E caret \in Carets(dom), outcome \in outcomes :
        LET text == TextAt(dom, caret.path)
            start == scanLeft(text, caret.offset)
            end == scanRight(text, caret.offset)
            cleared == clearActive(dom, activeSpan)
            node == pathAfterClear(dom, activeSpan, caret.path)[1]
            wraps == /\ caret.kind = "text"
                     /\ hoverOnWord(text, caret.offset)
                     /\ ~sameWord(dom, activeSpan, text, start, end)
        IN  /\ ~wraps => outcome = "ok"
            /\ IF caret.kind # "text"
               THEN UNCHANGED hoverVars
               ELSE IF ~hoverOnWord(text, caret.offset)
               THEN /\ dom' = cleared
                    /\ activeSpan' = <<>>
               ELSE IF sameWord(dom, activeSpan, text, start, end)
               THEN UNCHANGED hoverVars
               ELSE IF outcome = "throw"
               THEN /\ dom' = cleared
                    /\ activeSpan' = <<>>
               ELSE /\ Len(cleared) + 2 <= maxNodes
                    /\ dom' = surroundContents(cleared, node, start, end)
                    /\ activeSpan' = <<node + 1>>
            /\ lastEvent' =
                  Event("mousemove",
                        IF ~observe THEN ""
                        ELSE IF outcome = "throw" THEN "wrapfail"
                        ELSE caretClass(dom, caret),
                        <<>>, NoData,
                        observe /\ wrapFailureEscapes(outcome))
            /\ probe' =
                  IF observe
                  THEN [probe EXCEPT !.offset = absOffset(dom, caret),
                                     !.result = caretWhere(caret)]
                  ELSE probe
            /\ UNCHANGED <<lookupVars, pageVars, hist, widgetVars>>

\* a mousemove event on the page
Mousemove == MousemoveWith(MaxNodes, FALSE, {"ok"})

\* a mousemove event, recorded
HoverMove == MousemoveWith(MaxHoverNodes, TRUE, {"ok"})

\* a mousemove event, recorded, whose wrap may fail
FailingMove == MousemoveWith(MaxHoverNodes, TRUE, WrapOutcomes)

\* the pointer leaving the surface also hides the panel
displayAfterLeaveHides(display) == "none"

\* helperEl.style.display after a mouseleave: the listener calls clearActive
\* and nothing else
displayAfterLeave(display) == display

\* a mouseleave event of the surface: clearActive
Mouseleave ==
    /\ dom' = clearActive(dom, activeSpan)
    /\ activeSpan' = <<>>
    /\ helperDisplay' = displayAfterLeave(helperDisplay)
    /\ lastEvent' = Event("mouseleave", "", <<>>, NoData, FALSE)
    /\ UNCHANGED <<lastWordCache, helperHtml, helperPos, inflight>>
    /\ UNCHANGED <<pageVars, hist, probe, widgetVars>>

\* the click listener's resolution of a caret in the surface as the hover
\* has left it, from the caret's node and offset to the length test; the
\* step is recorded with what the caret is over, the resolved word and the
\* caret's place in the surface
ResolveInSurface ==
    \E caret \in Carets(dom) :
        LET onText == caret.kind = "text"
            found == /\ onText
                     /\ clickResolves(TextAt(dom, caret.path), caret.offset)
        IN  /\ lastEvent' =
                  Event("resolve", caretClass(dom, caret),
                        IF found
                        THEN clickWord(TextAt(dom, caret.path), caret.offset)
                        ELSE <<>>,
                        NoData, found)
            /\ probe' = [probe EXCEPT !.offset = absOffset(dom, caret),
                                      !.result = caretWhere(caret)]
            /\ UNCHANGED <<lookupVars, hoverVars, pageVars, hist, widgetVars>>

(* ----------------------- resolvers on their own ------------------------ *)

\* longest text a resolver is applied to
MaxTextLen == 4

\* the characters of those texts: a lower-case letter, an upper-case letter,
\* a digit, the underscore, a blank and a punctuation mark
ProbeChars == {"a", "B", "7", "_", " ", ","}

\* the texts of at most n characters
Texts(n) == UNION { [1..k -> ProbeChars] : k \in 0..n }

\* the characters (0-based) the pointer can be over; the empty text has none
\* and is entered with glyph 0
Glyphs(text) == IF text = <<>> THEN {0} ELSE 0..(Len(text) - 1)

\* the offsets caretRangeFromPoint can answer for a pointer over character
\* glyph of a text: the caret boundary before or after that character
caretOffsets(text, glyph) == IF text = <<>> THEN {0} ELSE {glyph, glyph + 1}

\* a resolver's input: a text, the character under the pointer and the
\* caret offset answered for it
ProbeInput(t, g, o) == [NoProbe EXCEPT !.text = t, !.glyph = g, !.offset = o]

InitResolve ==
    \E t \in Texts(MaxTextLen), s \in SurfaceTexts :
      \E g \in Glyphs(t) :
        \E o \in caretOffsets(t, g) : InitWith(s, ProbeInput(t, g, o))

\* the click listener's resolution of the caret to a word, from the scans to
\* the length test
ResolveClick ==
    /\ probe.result = ""
    /\ probe' =
          IF clickResolves(probe.text, probe.offset)
          THEN [probe EXCEPT !.result = "word",
                             !.word = clickWord(probe.text, probe.offset)]
          ELSE [probe EXCEPT !.result = "none"]
    /\ UNCHANGED <<lookupVars, hoverVars, pageVars, histVars, widgetVars>>

\* the mousemove listener's resolution of the caret to the run it wraps,
\* from the test of text[offset] to the scans
ResolveHover ==
    /\ probe.hover = ""
    /\ probe' =
          IF hoverOnWord(probe.text, probe.offset)
          THEN [probe EXCEPT
                  !.hover = "span",
                  !.run = slice(probe.text,
                                scanLeft(probe.text, probe.offset),
                                scanRight(probe.text, probe.offset))]
          ELSE [probe EXCEPT !.hover = "none"]
    /\ UNCHANGED <<lookupVars, hoverVars, pageVars, histVars, widgetVars>>

ResolveNext == ResolveClick \/ ResolveHover

SpecResolve == InitResolve /\ [][ResolveNext]_vars

(* ------------------------ showHelper on its own ------------------------ *)

\* largest multiple of the margin a coordinate or an extent takes
MaxGrid == 3

\* coordinates and extents: the multiples of the margin up to n of them
Coords(n) == { k * Margin : k \in 0..n }

\* page scroll offsets (window.scrollX, window.scrollY)
ScrollOffsets == {0, Margin}

\* most senses and most pronunciations of a definition's data
MaxSenses == 3
MaxProns == 2

\* glosses, audio urls ("" for a pronunciation without one), parts of speech
\* and phonetic spellings ("" when the field is missing)
Glosses == {"g1", "g2", "g3"}
AudioUrls == {"", "u1", "u2"}
PartsOfSpeech == {"", "noun"}
Ipas == {"", "ipa"}

\* the input of showHelper on record: the data, the click point, the size
\* the layout gives the panel and the page's scroll offset
ShowInput(data, pt, size, scroll) ==
    [data |-> data, x |-> pt[1], y |-> pt[2], w |-> size[1], h |-> size[2],
     sx |-> scroll[1], sy |-> scroll[2]]

\* showHelper is called for a click inside a window of any size, with a
\* panel of any size and the page scrolled or not
InitPosition ==
    \E t \in SurfaceTexts, data \in Defs(<<"c", "d">>) :
      \E vw \in Coords(MaxGrid) \ {0}, vh \in Coords(MaxGrid) \ {0},
         w \in Coords(MaxGrid), h \in Coords(MaxGrid),
         sx \in ScrollOffsets, sy \in ScrollOffsets :
        \E x \in { c \in Coords(MaxGrid) : c < vw },
           y \in { c \in Coords(MaxGrid) : c < vh } :
          InitPage(t, ShowInput(data, <<x, y>>, <<w, h>>, <<sx, sy>>),
                   { <<vw, vh>> })

\* showHelper is called with any data
InitRender ==
    \E t \in SurfaceTexts, pt \in Points, size \in PanelSizes :
      \E ns \in 0..MaxSenses, np \in 0..MaxProns,
         pos \in PartsOfSpeech, ipa \in Ipas :
        \E senses \in [1..ns -> Glosses], prons \in [1..np -> AudioUrls] :
          InitWith(t, ShowInput([word |-> <<"c", "d">>, pos |-> pos,
                                 ipa |-> ipa, senses |-> senses,
                                 pronunciations |-> prons],
                                pt, size, <<0, 0>>))

\* showHelper(data, x, y) for the input on record
ShowHelper ==
    /\ helperDisplay = "none"
    /\ helperHtml' = renderHtml(probe.data)
    /\ helperDisplay' = "block"
    /\ helperPos' = showPos(<<probe.x, probe.y>>, <<probe.w, probe.h>>,
                            viewport)
    /\ lastEvent' = Event("show", "", probe.data.word, probe.data, FALSE)
    /\ UNCHANGED <<lastWordCache, inflight, hoverVars, pageVars, hist, probe,
                   widgetVars>>

ShowNext == ShowHelper

SpecPosition == InitPosition /\ [][ShowNext]_vars

SpecRender == InitRender /\ [][ShowNext]_vars

(* --------------------------- specification ----------------------------- *)

(* ---------------------- assessment-status poller ----------------------- *)

\* most status requests issued in a run
MaxStatusRequests == 3

\* what DOMContentLoaded finds on the page: no [data-enrollment-id], an
\* enrollment id but no #refresh-status, or both
PollPages == {"noEnrollment", "noButton", "full"}

\* the poller once the DOMContentLoaded handler has run: without an
\* enrollment id it returns at once; without the button
\* refreshBtn.addEventListener throws and the interval and the timeout are
\* never started; otherwise both are started
pollerAfterLoad(page) ==
    IF page = "full"
    THEN [NoPoller EXCEPT !.refreshBtn = TRUE, !.pollingInterval = TRUE,
                          !.initialTimeout = TRUE]
    ELSE NoPoller

\* the guard left out: every call issues a request
skipsRequestNever(p) == FALSE

\* if (isRequestInFlight) return;
skipsRequest(p) == p.isRequestInFlight

\* fetchStatus: nothing while a request is in flight, else the flag is set
\* and a request is issued
fetchStatus(p) ==
    IF skipsRequest(p) THEN p
    ELSE [p EXCEPT !.isRequestInFlight = TRUE,
                   !.requests = Append(p.requests, "fetch"),
                   !.issued = p.issued + 1]

\* a call of fetchStatus that stays within the number of requests of a run
withinRun(p) == skipsRequest(p) \/ p.issued < MaxStatusRequests

\* a tick of setInterval(() => fetchStatus(), 15000)
IntervalTick ==
    /\ poller.pollingInterval
    /\ withinRun(poller)
    /\ poller' = fetchStatus(poller)
    /\ lastEvent' = Event("tick", "", <<>>, NoData, ~skipsRequest(poller))
    /\ UNCHANGED <<lookupVars, hoverVars, pageVars, hist, probe, nav, theme>>

\* setTimeout(() => fetchStatus(), 1000) fires
InitialTimeout ==
    /\ poller.initialTimeout
    /\ withinRun(poller)
    /\ poller' = [fetchStatus(poller) EXCEPT !.initialTimeout = FALSE]
    /\ lastEvent' = Event("timeout", "", <<>>, NoData, ~skipsRequest(poller))
    /\ UNCHANGED <<lookupVars, hoverVars, pageVars, hist, probe, nav, theme>>

\* what the identifier button denotes in the click listener: nothing (no
\* declaration in the script, no element of that id on the page: evaluating
\* it throws ReferenceError), or an element the page names button
ButtonBindings == {"undeclared", "element"}

\* a click on #refresh-status: fetchStatus(button)
RefreshClick ==
    \E binding \in ButtonBindings :
        /\ poller.refreshBtn
        /\ binding = "element" => withinRun(poller)
        /\ poller' = IF binding = "element" THEN fetchStatus(poller)
                     ELSE poller
        /\ lastEvent' = Event("refresh_click", binding, <<>>, NoData,
                              binding = "element" /\ ~skipsRequest(poller))
        /\ UNCHANGED <<lookupVars, hoverVars, pageVars, hist, probe, nav,
                       theme>>

\* the flag reset only when the response handler has returned
inFlightAfterSettleOnSuccess(how) == how # "then"

\* isRequestInFlight once the chain has run to its end, whether through the
\* response handler ("then") or through the catch handler ("catch"):
\* .finally(() => { isRequestInFlight = false; ... })
inFlightAfterSettle(how) == FALSE

\* stopPolling
stopPolling(p) == [p EXCEPT !.pollingInterval = FALSE]

\* the request's chain has run to its end
settled(p, how) ==
    [p EXCEPT !.isRequestInFlight = inFlightAfterSettle(how),
              !.requests = Tail(p.requests)]

\* the promise of fetch() settles: rejected, the catch handler logs and the
\* finally handler runs; resolved, r.json() is awaited
StatusFetchSettle ==
    \E rejected \in BOOLEAN :
        /\ poller.requests # <<>>
        /\ Head(poller.requests) = "fetch"
        /\ poller' = IF rejected THEN settled(poller, "catch")
                     ELSE [poller EXCEPT !.requests = <<"json">>
                                               \o Tail(poller.requests)]
        /\ lastEvent' = Event(IF rejected THEN "status_settle"
                              ELSE "status_res",
                              IF rejected THEN "reject" ELSE "", <<>>,
                              NoData, FALSE)
        /\ UNCHANGED <<lookupVars, hoverVars, pageVars, hist, probe, nav,
                       theme>>

\* what r.json() gives: a rejection (the body does not parse), or data with
\* status REDIRECT and a redirect_url, status REDIRECT and none, status
\* ERROR, a numeric progress, or none of these
StatusBodies ==
    {"parse", "REDIRECT_url", "REDIRECT", "ERROR", "progress", "other"}

\* how a call of showErrorMessage or updateProgress ends: neither is
\* defined by the script; the call returns when the page defines the
\* function, and throws otherwise or when the function throws
HelperOutcomes == {"return", "throw"}

\* the statuses on which the polling is to stop
stopsOn(body) ==
    IF body = "REDIRECT_url" THEN "REDIRECT"
    ELSE IF body = "ERROR" THEN "ERROR" ELSE ""

\* the promise of r.json() settles and the rest of the chain runs: the
\* response handler, the catch handler if it threw, the finally handler
StatusJsonSettle ==
    \E body \in StatusBodies, helper \in HelperOutcomes :
        LET calls == body \in {"ERROR", "progress"}
            threw == body = "parse" \/ (calls /\ helper = "throw")
            stops == \/ body = "REDIRECT_url"
                     \/ body = "ERROR" /\ helper = "return"
            p == IF stops THEN stopPolling(poller) ELSE poller
        IN  /\ poller.requests # <<>>
            /\ Head(poller.requests) = "json"
            /\ ~calls => helper = "return"
            /\ poller' =
                  [settled(p, IF threw THEN "catch" ELSE "then") EXCEPT
                     !.navigated = p.navigated \/ body = "REDIRECT_url",
                     !.stopStatus = IF stopsOn(body) # "" THEN stopsOn(body)
                                    ELSE p.stopStatus]
            /\ lastEvent' = Event("status_settle", body, <<>>, NoData, threw)
            /\ UNCHANGED <<lookupVars, hoverVars, pageVars, hist, probe, nav,
                           theme>>


(* --------------------- mobile menu and theme switcher ------------------ *)

\* the menu on a page with .nav__burger and .nav__mobile, once nav.init has
\* run
ClosedNav == [present |-> TRUE, isOpen |-> FALSE, openClass |-> FALSE]

\* this.themes
Themes == <<"light", "dark", "solarized">>

\* most theme notifications on the page at a time
MaxNotes == 1

\* the switcher before its constructor runs: localStorage's 'theme' and the
\* system's preference as the page finds them
ThemeUnbuilt(saved, dark) ==
    [built |-> FALSE, currentTheme |-> "", saved |-> saved, attr |-> "",
     systemDark |-> dark, chosen |-> FALSE, savedAtLoad |-> saved # <<>>,
     notes |-> 0]

\* applyTheme: the data-theme attribute, currentTheme and localStorage are
\* all set (updateButtonTitle only sets the button's title)
applyTheme(th, t) ==
    [th EXCEPT !.attr = t, !.currentTheme = t, !.saved = <<t>>]

\* the system's colour scheme as a theme
systemTheme(dark) == IF dark THEN "dark" ELSE "light"

\* the body of watchSystemTheme's handler and of its check at load: the
\* system theme is applied if localStorage holds no theme
followSystem(th) ==
    IF th.saved = <<>> THEN applyTheme(th, systemTheme(th.systemDark)) ELSE th

\* new ThemeSwitcher(): currentTheme = getSavedTheme() || 'light', then
\* init: applyTheme(currentTheme), bindEvents with watchSystemTheme
ThemeSwitcherNew(th) ==
    followSystem(
        applyTheme([th EXCEPT !.built = TRUE],
                   IF th.saved # <<>> THEN th.saved[1] ELSE "light"))

\* 1-based index of theme t in this.themes
themeIndex(t) == CHOOSE i \in 1..Len(Themes) : Themes[i] = t

\* nextTheme: the theme after the current one is applied and a notification
\* is put on the page
nextTheme(th) ==
    [applyTheme(th, Themes[(themeIndex(th.currentTheme) % Len(Themes)) + 1])
       EXCEPT !.chosen = TRUE, !.notes = th.notes + 1]

\* toggleMenu
toggleMenu(n) == [n EXCEPT !.isOpen = ~n.isOpen, !.openClass = ~n.isOpen]

\* closeMenu: the open class is removed (with the burger's active class and
\* the scroll lock); isOpen is not assigned
closeMenu(n) == [n EXCEPT !.openClass = FALSE]

\* the three document-level handlers that close the menu
closeIf(n, cond) == IF n.isOpen /\ cond THEN closeMenu(n) ELSE n

\* where a click can land on the page's chrome
ChromeTargets == {"burger", "menu", "themeToggle", "outside"}

\* a click: the target's listener runs first (toggleMenu on the burger,
\* nextTheme on the theme toggle, stopPropagation in the menu), then, unless
\* stopped, handleOutsideClick on document
ChromeClick ==
    \E target \in ChromeTargets :
        /\ nav.present
        /\ target = "menu" => nav.openClass
        /\ target = "themeToggle" => theme.notes < MaxNotes
        /\ nav' = IF target = "burger" THEN toggleMenu(nav)
                  ELSE closeIf(nav, target # "menu")
        /\ theme' = IF target = "themeToggle" THEN nextTheme(theme) ELSE theme
        /\ lastEvent' = Event("chrome_click", target, <<>>, NoData,
                              nav.openClass)
        /\ UNCHANGED <<lookupVars, hoverVars, pageVars, hist, probe, poller>>

ChromeKeys == {"Escape", "Ctrl+/", "Enter"}

\* a keydown: handleEscape and the theme switcher's shortcut
ChromeKeydown ==
    \E key \in ChromeKeys :
        /\ nav.present
        /\ key = "Ctrl+/" => theme.notes < MaxNotes
        /\ nav' = closeIf(nav, key = "Escape")
        /\ theme' = IF key = "Ctrl+/" THEN nextTheme(theme) ELSE theme
        /\ lastEvent' = Event("chrome_key", key, <<>>, NoData, nav.openClass)
        /\ UNCHANGED <<lookupVars, hoverVars, pageVars, hist, probe, poller>>

\* widest window that is not a desktop window: window.innerWidth > 900
DesktopWidth == 900

\* window widths after a resize
Widths == {DesktopWidth, DesktopWidth + 1}

\* a resize of the window: handleResize
Resize ==
    \E w \in Widths :
        /\ nav.present
        /\ viewport' = <<w, viewport[2]>>
        /\ nav' = closeIf(nav, w > DesktopWidth)
        /\ lastEvent' = Event("resize", "", <<>>, NoData, nav.openClass)
        /\ UNCHANGED <<lookupVars, hoverVars, modalOpen, hist, probe, poller,
                       theme>>

\* the system's colour scheme changes: handleSystemThemeChange
SystemThemeChange ==
    /\ nav.present
    /\ theme' = followSystem([theme EXCEPT !.systemDark = ~theme.systemDark])
    /\ lastEvent' = Event("system_theme", "", <<>>, NoData, FALSE)
    /\ UNCHANGED <<lookupVars, hoverVars, pageVars, hist, probe, poller, nav>>

\* the timers of showThemeNotification remove a notification
NotificationExpires ==
    /\ theme.notes > 0
    /\ theme' = [theme EXCEPT !.notes = theme.notes - 1]
    /\ lastEvent' = Event("note_expire", "", <<>>, NoData, FALSE)
    /\ UNCHANGED <<lookupVars, hoverVars, pageVars, hist, probe, poller, nav>>


\* the click lookup on its own
Next ==
    \/ Click
    \/ FetchSettle
    \/ JsonSettle

Spec == Init /\ [][Next]_vars

\* the whole page
PageNext ==
    \/ PageClick
    \/ FetchSettle
    \/ JsonSettle
    \/ OpenModal
    \/ Keydown
    \/ Mousemove
    \/ Mouseleave

SpecPage == Init /\ [][PageNext]_vars

\* the lookup with the dismissal history kept
DismissNext == TrackedClick \/ FetchSettle \/ JsonSettle

SpecDismiss == Init /\ [][DismissNext]_vars

\* the characters of the texts hovered over
HoverChars == {"a", "b", " "}

\* the texts of at most n characters hovered over
HoverTexts(n) == UNION { [1..k -> HoverChars] : k \in 1..n }

InitHover ==
    \E t \in HoverTexts(MaxTextLen) :
        InitWith(t, [NoProbe EXCEPT !.text = t])

\* the hover highlight on its own
HoverNext == HoverMove \/ Mouseleave

SpecHover == InitHover /\ [][HoverNext]_vars

\* the hover highlight with the click listener's resolver applied to the
\* surface in between
HoverClickNext == HoverMove \/ Mouseleave \/ ResolveInSurface

SpecHoverClick == InitHover /\ [][HoverClickNext]_vars

\* the hover highlight when surroundContents can throw
WrapFailNext == FailingMove \/ Mouseleave

SpecWrapFail == InitHover /\ [][WrapFailNext]_vars

\* texts of the surface with a one-character token, an upper-case letter, a
\* digit and an underscore
TokenTexts == { <<"a", " ", "B", "7", " ", "_", "c">> }

InitTokens == \E t \in TokenTexts : InitWith(t, NoProbe)

\* the click lookup over a surface with short tokens
SpecTokens == InitTokens /\ [][Next]_vars

InitPoll ==
    \E t \in SurfaceTexts, page \in PollPages :
        /\ InitCore(t, NoProbe, Viewports)
        /\ poller = pollerAfterLoad(page)
        /\ nav = NoNav
        /\ theme = LightTheme

PollNext ==
    \/ IntervalTick
    \/ InitialTimeout
    \/ RefreshClick
    \/ StatusFetchSettle
    \/ StatusJsonSettle

\* the assessment-status poller
SpecPoll == InitPoll /\ [][PollNext]_vars

\* what localStorage can hold under 'theme' when the page loads
SavedThemes == {<<>>} \cup {<<Themes[i]>> : i \in 1..Len(Themes)}

\* the page's chrome once DOMContentLoaded has run: new ThemeSwitcher() and
\* nav.init()
InitChrome ==
    \E t \in SurfaceTexts, saved \in SavedThemes, dark \in BOOLEAN :
        /\ InitCore(t, NoProbe, Viewports)
        /\ poller = NoPoller
        /\ nav = ClosedNav
        /\ theme = ThemeSwitcherNew(ThemeUnbuilt(saved, dark))

ChromeNext ==
    \/ ChromeClick
    \/ ChromeKeydown
    \/ Resize
    \/ SystemThemeChange
    \/ NotificationExpires

\* the mobile menu and the theme switcher
SpecChrome == InitChrome /\ [][ChromeNext]_vars

TypeOK ==
    /\ Len(lastWordCache) <= 1
    /\ helperDisplay \in {"none", "block"}
    /\ Len(inflight) <= MaxInFlight
    /\ Len(activeSpan) <= 1
    /\ modalOpen \in BOOLEAN

(* ------------------------------ properties ----------------------------- *)

\* the last step was a click that resolved a word and went to the cache check
LookupClick == lastEvent.kind \in {"click_hit", "click_fetch"}

\* the last step was any click
AnyClick == lastEvent.kind \in {"click", "click_hit", "click_fetch"}

\* the most recent lookup followed a lookup of the same word
SameWordAgain == hist.prevWord # <<>> /\ hist.prevWord = hist.lastWord

\* the most recent lookup followed a lookup of a different word
DifferentWordNext == hist.prevWord # <<>> /\ hist.prevWord # hist.lastWord

C2_DifferentAlwaysFetches ==
    (LookupClick /\ DifferentWordNext) => lastEvent.kind = "click_fetch"

\* C2 amended: of two consecutive click lookups of different words the
\* second issues a network request when the first one was a cache hit or
\* its fetch had already succeeded, and no older fetch has succeeded in
\* between.
C2_DifferentFetchesAfterCached ==
    (LookupClick /\ DifferentWordNext /\ lastEvent.flag)
        => lastEvent.kind = "click_fetch"

C2_Witness ==
    /\ lastEvent.kind = "click_fetch"
    /\ DifferentWordNext
    /\ lastEvent.flag
    /\ cacheHit(lastWordCache, hist.prevWord)

\* C3 as stated: after a lookup of A followed by a lookup of a different
\* word B, once the lookup of B has completed the cache no longer holds A's
\* entry.
C3_SecondLookupEvicts ==
    (DifferentWordNext /\ hist.status \in {"hit", "ok", "fail"})
        => ~cacheHit(lastWordCache, hist.prevWord)

\* C3 amended: after a lookup of A followed by a lookup of a different word
\* B, once the lookup of B has completed with success (a cache hit or a
\* successful fetch), and until an older fetch succeeds, the cache holds
\* B's entry and no longer A's.
C3_SuccessfulLookupEvicts ==
    (DifferentWordNext /\ lastCached)
        => /\ cacheHit(lastWordCache, hist.lastWord)
           /\ ~cacheHit(lastWordCache, hist.prevWord)

C3_Witness ==
    /\ DifferentWordNext
    /\ hist.status = "ok"
    /\ ~hist.stale
    /\ lastEvent.kind = "fetch_ok"
    /\ cacheHit(lastWordCache, hist.lastWord)

\* C4: the cache holds at most one entry, the entry changes only in a step
\* in which a fetch succeeds (not on a failed fetch, a resolver miss, a cache
\* hit, a dismissal, a key press or a hover event), and a populated cache is
\* never emptied.
C4_CacheChangesOnlyOnSuccess ==
    [][ /\ Len(lastWordCache') <= 1
        /\ lastWordCache' # lastWordCache => lastEvent'.kind = "fetch_ok"
        /\ lastWordCache # <<>> => lastWordCache' # <<>> ]_vars

C4_Witness ==
    /\ lastWordCache # <<>>
    /\ lastEvent.kind = "fetch_fail"
    /\ lastEvent.word # lastWordCache[1].word
    /\ activeSpan # <<>>

\* C5: when the fetch for word w completes successfully with data d, in that
\* step the cache becomes {word: w, data: d} and the panel is visible and
\* shows d.
C5_SuccessStoresAndShows ==
    lastEvent.kind = "fetch_ok"
        => /\ lastWordCache = <<[word |-> lastEvent.word, data |-> lastEvent.data]>>
           /\ helperDisplay = "block"
           /\ helperHtml = renderHtml(lastEvent.data)

C5_Witness ==
    /\ lastEvent.kind = "fetch_ok"
    /\ lastEvent.data \in Defs(lastEvent.word)
    /\ helperHtml.word = lastEvent.word
    /\ helperDisplay = "block"

\* C6: when a fetch fails (rejected promise, response that is not ok, body
\* that does not parse) the panel's content is not rebuilt, the panel ends
\* hidden, the cache is unchanged and the listener is finished, so that
\* later lookups find the state a lookup leaves; the outcome is the same
\* whether or not the body of a response that is not ok parses.
C6_FailureHidesOnly ==
    [][ lastEvent'.kind = "fetch_fail"
          => /\ helperDisplay' = "none"
             /\ helperHtml' = helperHtml
             /\ helperPos' = helperPos
             /\ lastWordCache' = lastWordCache
             /\ Len(inflight') = Len(inflight) - 1 ]_vars

C6_Witness ==
    /\ lastEvent.kind = "fetch_fail"
    /\ lastEvent.target = "notok_parse"
    /\ helperDisplay = "none"
    /\ lastWordCache # <<>>
    /\ helperHtml = renderHtml(lastWordCache[1].data)

\* C7: fetches are never cancelled: a request leaves the outstanding ones
\* only in the step in which it settles, and when the fetch of an older
\* lookup succeeds after a newer lookup started, its data overwrites the
\* cache and is shown in the panel.
C7_StaleFetchOverwrites ==
    [][ /\ Len(inflight') < Len(inflight)
            => /\ lastEvent'.kind \in {"fetch_ok", "fetch_fail"}
               /\ Len(inflight') = Len(inflight) - 1
        /\ (lastEvent'.kind = "fetch_ok" /\ lastEvent'.flag)
            => /\ lastWordCache' = <<[word |-> lastEvent'.word,
                                      data |-> lastEvent'.data]>>
               /\ helperDisplay' = "block"
               /\ helperHtml' = renderHtml(lastEvent'.data) ]_vars

\* the newer lookup's result was shown, then the older lookup's response
\* arrived: cache and panel hold the older lookup's word
C7_Witness ==
    /\ hist.status = "ok"
    /\ hist.stale
    /\ lastEvent.kind = "fetch_ok"
    /\ lastEvent.flag
    /\ lastEvent.word # hist.lastWord
    /\ lastWordCache # <<>>
    /\ lastWordCache[1].word = lastEvent.word
    /\ helperDisplay = "block"
    /\ helperHtml.word = lastEvent.word

\* C8: the panel is hidden initially; it goes from hidden to visible only in
\* a step that is a successful fetch or a cache hit; it is never visible
\* before a fetch has succeeded.
C8_VisibleOnlyAfterShow ==
    /\ helperDisplay = "none"
    /\ [][ /\ (helperDisplay = "none" /\ helperDisplay' = "block")
               => lastEvent'.kind \in {"fetch_ok", "click_hit"}
           /\ helperDisplay' = "block" => hist'.anyOk ]_vars

C8_Witness ==
    /\ helperDisplay = "block"
    /\ lastEvent.kind = "click_hit"
    /\ hist.anyOk

DismissalClick == lastEvent.kind = "click" /\ clickHides(lastEvent.target)

\* the last step was the first lookup after a dismissal of the visible
\* panel, and it resolved the word the panel was showing
RelookAfterDismissal ==
    LookupClick /\ hist.dismState \in {"relookClean", "relookTouched"}

\* the lookup of the last step showed the panel from the cache
ShownAgainFromCache ==
    lastEvent.kind = "click_hit" /\ helperDisplay = "block"

\* C11 as stated: after the overlay showing word w has been dismissed, the
\* next lookup of w shows the overlay again with the same content and issues
\* no fetch.
C11_RelookNeverFetches == RelookAfterDismissal => ShownAgainFromCache

\* C11 amended: a dismissing click leaves the cache as it is, and after the
\* overlay showing word w has been dismissed, the next lookup of w shows
\* the overlay again with the same content and issues no fetch, provided
\* no fetch has succeeded between the dismissal and that lookup.
C11_DismissalKeepsCache ==
    [][ /\ DismissalClick' => lastWordCache' = lastWordCache
        /\ (RelookAfterDismissal' /\ hist'.dismState = "relookClean")
              => /\ ShownAgainFromCache'
                 /\ helperHtml' = hist'.dism
                 /\ inflight' = retire(inflight) ]_vars

C11_Witness ==
    /\ RelookAfterDismissal
    /\ hist.dismState = "relookClean"
    /\ ShownAgainFromCache
    /\ helperHtml = hist.dism
    /\ hist.dism.word = lastEvent.word
    /\ hist.dism = renderHtml(lastWordCache[1].data)

\* C12: for a single click event dismissal and lookup exclude each other and
\* the target alone decides: a click in the annotated surface may start a
\* lookup and never hides the panel, a click anywhere else never starts a
\* lookup, shows nothing and issues no fetch.
C12_DismissalExcludesLookup ==
    [][ AnyClick' =>
          /\ ~(LookupClick' /\ clickHides(lastEvent'.target))
          /\ lastEvent'.target = "surface" =>
                (helperDisplay = "block" => helperDisplay' = "block")
          /\ lastEvent'.target # "surface" =>
                /\ lastEvent'.kind = "click"
                /\ inflight' = inflight
                /\ helperHtml' = helperHtml
                /\ helperDisplay' \in {helperDisplay, "none"} ]_vars

C12_Witness ==
    /\ lastEvent.kind = "click_fetch"
    /\ lastEvent.target = "surface"
    /\ helperDisplay = "block"
    /\ Len(inflight) >= 1

\* character i (0-based) of the text exists and is a letter, digit or
\* underscore
IsWordCharAt(text, i) ==
    i >= 0 /\ i < Len(text) /\ text[i + 1] \in WordChars

\* the maximal runs of word characters of a text, as <<start, end>> with
\* the end exclusive
Runs(text) ==
    { run \in (0..Len(text)) \X (0..Len(text)) :
        /\ run[1] < run[2]
        /\ \A i \in run[1]..(run[2] - 1) : IsWordCharAt(text, i)
        /\ ~IsWordCharAt(text, run[1] - 1)
        /\ ~IsWordCharAt(text, run[2]) }

\* the runs the character under the pointer belongs to (at most one)
RunsUnderPointer ==
    { run \in Runs(probe.text) :
        run[1] <= probe.glyph /\ probe.glyph < run[2] }

\* the click resolver has been applied to the input on record
Resolved == probe.result # ""

\* C13: for every text and every caret offset that lands inside a run of at
\* least 2 word characters (the boundaries of the run included), the click
\* resolver returns exactly that maximal run, lower-cased.
C13_MaximalRunLowerCased ==
    Resolved =>
      \A run \in Runs(probe.text) :
        (run[2] - run[1] >= 2 /\ run[1] <= probe.offset
                              /\ probe.offset <= run[2])
          => /\ probe.result = "word"
             /\ probe.word = toLowerCase(slice(probe.text, run[1], run[2]))
             /\ \A i \in 1..Len(probe.word) : probe.word[i] \notin UpperLetters

C13_Witness ==
    /\ Resolved
    /\ \E run \in Runs(probe.text) :
          /\ run[2] - run[1] >= 3
          /\ run[1] < probe.offset /\ probe.offset < run[2]
          /\ run[1] > 0
          /\ probe.word = toLowerCase(slice(probe.text, run[1], run[2]))
          /\ probe.word # slice(probe.text, run[1], run[2])

\* C14 as stated: when the pointer is over whitespace or punctuation, or over
\* a run of fewer than 2 word characters, the click resolver returns none.
C14_NoneOffWords ==
    (Resolved /\ \A run \in RunsUnderPointer : run[2] - run[1] < 2)
        => probe.result = "none"

\* a word as the lookup accepts it: at least 2 characters, each a lower-case
\* letter, a digit or an underscore
ValidWord(w) ==
    /\ Len(w) >= 2
    /\ \A i \in 1..Len(w) : w[i] \in WordChars \ UpperLetters

\* every word at the cache check, in a fetch request or in the cache is valid
ValidWords ==
    /\ LookupClick => ValidWord(lastEvent.word)
    /\ \A i \in 1..Len(inflight) : ValidWord(inflight[i].word)
    /\ \A i \in 1..Len(lastWordCache) : ValidWord(lastWordCache[i].word)

\* the last step was a click in the surface on a token of one character
ShortTokenClick ==
    /\ lastEvent.kind = "click"
    /\ lastEvent.target = "surface"
    /\ Len(lastEvent.word) = 1

\* C15: every word that reaches the cache check, a fetch request or the
\* cache key is a lower-case string of at least 2 word characters, and a
\* click that resolves to a token of one character issues no fetch and
\* leaves the overlay and the cache unchanged.
C15_OnlyValidWordsLookedUp ==
    [][ /\ ValidWords'
        /\ ShortTokenClick' => UNCHANGED lookupVars ]_vars

C15_Witness ==
    /\ ShortTokenClick
    /\ helperDisplay = "block"
    /\ lastWordCache # <<>>
    /\ \E i \in 1..Len(lastWordCache[1].word) :
          lastWordCache[1].word[i] \in OtherWordChars
    /\ Len(inflight) >= 1

\* the highlight spans in the surface's subtree
Spans == { i \in 1..Len(dom) : dom[i].kind = "span" }

\* the highlight state is Idle: no active span and no span in the document
Idle == activeSpan = <<>> /\ Spans = {}

\* C16: after any sequence of mousemove and mouseleave events at most one
\* highlight span exists in the surface's subtree, and activeSpan is non-null
\* exactly when such a span exists (and is that span).
C16_AtMostOneSpan ==
    /\ Cardinality(Spans) <= 1
    /\ activeSpan # <<>> <=> Spans # {}
    /\ activeSpan # <<>> => Spans = {activeSpan[1]}

C16_Witness ==
    /\ lastEvent.kind = "mousemove"
    /\ activeSpan # <<>>
    /\ Len(dom) = 5
    /\ Cardinality(Spans) = 1

\* C17: after any sequence of wrap and unwrap operations the concatenated
\* text content of the surface is the original text.
C17_TextContentPreserved == surfaceText(dom) = probe.text

C17_Witness ==
    /\ lastEvent.kind = "mouseleave"
    /\ Len(dom) = 5
    /\ Spans = {}
    /\ probe.text # <<>>
    /\ surfaceText(dom) = probe.text

\* C18 as stated: once the highlight is unwrapped the surface holds the same
\* sequence of text nodes as before the wrap, with no extra, split or empty
\* node left behind.
C18_UnwrapRestoresNodes ==
    activeSpan = <<>> => dom = <<TextNode(probe.text)>>

\* C19 as stated: whenever the pointer leaves the surface or a mousemove
\* resolves to no word (non-text node, non-word character or empty text),
\* the highlight state becomes Idle: the span is unwrapped and activeSpan
\* is null.
C19_MissClearsHighlight ==
    (\/ lastEvent.kind = "mouseleave"
     \/ /\ lastEvent.kind = "mousemove"
        /\ lastEvent.target \in {"nontext", "nonword", "empty"})
        => Idle

Shown == lastEvent.kind = "show"

\* the page is not scrolled
NoScroll == probe.sx = 0 /\ probe.sy = 0

\* C21: with no scroll offset, for a panel of width W and height H anchored
\* at (x, y) in a viewport (VW, VH): left = VW - W - 10 if x + 10 + W > VW,
\* otherwise left = x + 10; top = VH - H - 10 if y + 10 + H > VH, otherwise
\* top = y + 10.
C21_ClampedToViewport ==
    (Shown /\ NoScroll) =>
      /\ helperPos[2] = IF probe.x + 10 + probe.w > viewport[1]
                        THEN viewport[1] - probe.w - 10
                        ELSE probe.x + 10
      /\ helperPos[1] = IF probe.y + 10 + probe.h > viewport[2]
                        THEN viewport[2] - probe.h - 10
                        ELSE probe.y + 10

C21_Witness ==
    /\ Shown
    /\ NoScroll
    /\ probe.x + 10 + probe.w = viewport[1]
    /\ helperPos[2] = probe.x + 10
    /\ probe.y + 10 + probe.h > viewport[2]
    /\ helperPos[1] = viewport[2] - probe.h - 10

\* C22 as stated: the panel is positioned in document coordinates: for page
\* scroll offset (sx, sy) and a click at viewport point (x, y) the unclamped
\* position is (x + sx + 10, y + sy + 10) and the clamp bounds are the
\* viewport's right and bottom edges in document coordinates.
C22_DocumentCoordinates ==
    Shown =>
      /\ helperPos[2] =
            IF probe.x + probe.sx + 10 + probe.w > probe.sx + viewport[1]
            THEN probe.sx + viewport[1] - probe.w - 10
            ELSE probe.x + probe.sx + 10
      /\ helperPos[1] =
            IF probe.y + probe.sy + 10 + probe.h > probe.sy + viewport[2]
            THEN probe.sy + viewport[2] - probe.h - 10
            ELSE probe.y + probe.sy + 10

\* C23 as stated: the shown panel never runs off-screen: for every anchor
\* inside the viewport and every panel size, 0 <= left, left + W <= VW,
\* 0 <= top and top + H <= VH (taken with the page not scrolled, and for
\* panels no larger than the viewport).
C23_NeverOffScreen ==
    (Shown /\ NoScroll /\ probe.w <= viewport[1] /\ probe.h <= viewport[2])
      => /\ 0 <= helperPos[2]
         /\ helperPos[2] + probe.w <= viewport[1]
         /\ 0 <= helperPos[1]
         /\ helperPos[1] + probe.h <= viewport[2]

\* the smaller of two numbers
Min(a, b) == IF a < b THEN a ELSE b

\* C24: for data with n senses the overlay lists exactly min(n, 2) glosses,
\* the first ones in their original order, and no list when n = 0.
C24_FirstTwoGlosses ==
    Shown =>
      /\ Len(helperHtml.items) = Min(Len(probe.data.senses), 2)
      /\ \A i \in 1..Len(helperHtml.items) :
            helperHtml.items[i] = probe.data.senses[i]
      /\ helperHtml.list <=> Len(probe.data.senses) > 0

C24_Witness ==
    /\ Shown
    /\ Len(probe.data.senses) = 3
    /\ helperHtml.items = <<"g3", "g1">>
    /\ probe.data.senses[3] = "g2"

\* C25: the overlay has an audio control exactly when the first
\* pronunciation of the data has an audio url, and the control is bound to
\* that url; the url of a later pronunciation is never used.
C25_AudioOfFirstPronunciation ==
    Shown =>
      IF Len(probe.data.pronunciations) >= 1
         /\ probe.data.pronunciations[1] # ""
      THEN helperHtml.audio = probe.data.pronunciations[1]
      ELSE helperHtml.audio = ""

C25_Witness ==
    /\ Shown
    /\ probe.data.pronunciations = <<"", "u2">>
    /\ helperHtml.audio = ""

\* C26: hiding is idempotent: a dismissing click on an already hidden
\* overlay changes nothing: the overlay stays hidden and its content and
\* position, the cache, the outstanding fetches and the highlight are
\* unchanged.
C26_HideIdempotent ==
    [][ (DismissalClick' /\ helperDisplay = "none")
          => /\ helperDisplay' = "none"
             /\ UNCHANGED <<lastWordCache, helperHtml, helperPos, inflight>>
             /\ UNCHANGED hoverVars ]_vars

C26_Witness ==
    /\ DismissalClick
    /\ lastEvent.flag
    /\ helperDisplay = "none"
    /\ lastWordCache # <<>>
    /\ helperHtml = renderHtml(lastWordCache[1].data)
    /\ activeSpan # <<>>

\* the last step was a mousemove with the caret in the highlighted word
MoveOverHighlighted == lastEvent.kind = "mousemove" /\ probe.result = "inspan"

\* C27: a mousemove that resolves to the word already highlighted is a
\* no-op: the span is neither unwrapped nor re-created and the document is
\* left unchanged.
C27_SameWordNoOp == [][ MoveOverHighlighted' => UNCHANGED hoverVars ]_vars

C27_Witness ==
    /\ MoveOverHighlighted
    /\ activeSpan # <<>>
    /\ Len(spanTextContent(dom, activeSpan[1])) >= 2
    /\ Len(dom) = 5

\* the extent <<start, end>> of the active span in the surface's text
SpanExtent ==
    << prefixLen(dom, activeSpan[1]),
       prefixLen(dom, activeSpan[1])
         + Len(spanTextContent(dom, activeSpan[1])) >>

\* C28 as stated: after every mousemove that resolves to a word the single
\* active highlight span wraps exactly the text run under the pointer (that
\* occurrence, not another occurrence of the same text).
C28_SpanWrapsRunUnderPointer ==
    (lastEvent.kind = "mousemove" /\ lastEvent.target = "word")
      => /\ activeSpan # <<>>
         /\ \A run \in Runs(probe.text) :
               (run[1] <= probe.offset /\ probe.offset < run[2])
                 => SpanExtent = run

\* C29 as stated: the hover controller never highlights a run shorter than
\* 2 word characters.
C29_NoShortHighlight ==
    activeSpan # <<>> => Len(spanTextContent(dom, activeSpan[1])) >= 2

\* C30: in every reachable state where the overlay is visible, the cache is
\* not empty and the overlay displays the data of the current cache entry.
C30_VisibleShowsCacheEntry ==
    helperDisplay = "block"
      => /\ lastWordCache # <<>>
         /\ helperHtml = renderHtml(lastWordCache[1].data)

C30_Witness ==
    /\ helperDisplay = "block"
    /\ lastEvent.kind = "mouseleave"
    /\ Len(inflight) = 1
    /\ lastWordCache # <<>>
    /\ inflight[1].word # lastWordCache[1].word
    /\ helperHtml.word = lastWordCache[1].word
    /\ Len(helperHtml.items) = 2

\* a fetch has succeeded after the visible panel was dismissed, no lookup
\* having been made since the dismissal
SettledAfterDismissal ==
    lastEvent.kind = "fetch_ok" /\ hist.dismState = "touched"

\* C31: a dismissal that happens while a fetch is outstanding does not
\* cancel it (the outstanding requests stay as they are), and when that
\* fetch later succeeds the overlay becomes visible again, showing the
\* fetched entry, although the user made no new lookup after dismissing.
C31_DismissalKeepsFetch ==
    [][ /\ DismissalClick' => inflight' = inflight
        /\ SettledAfterDismissal' =>
              /\ helperDisplay' = "block"
              /\ helperHtml' = renderHtml(lastEvent'.data) ]_vars

C31_Witness ==
    /\ SettledAfterDismissal
    /\ helperDisplay = "block"
    /\ helperHtml.word = lastEvent.word
    /\ hist.dism.word # lastEvent.word

\* the last step was an event of the hover controller
HoverStep == lastEvent.kind \in {"mousemove", "mouseleave"}

\* the last step was a click (a lookup, a dismissal or neither) or the
\* completion of a fetch
LookupStep ==
    lastEvent.kind \in {"click", "click_hit", "click_fetch", "fetch_res",
                        "fetch_ok", "fetch_fail"}

\* C32: hover and lookup are independent: mousemove and mouseleave handling
\* never changes the cache, the outstanding fetches or the overlay's
\* visibility and content, and click lookups, fetch completions and
\* dismissals never change the highlight state.
C32_HoverLookupIndependent ==
    [][ /\ HoverStep' => UNCHANGED lookupVars
        /\ LookupStep' => UNCHANGED hoverVars ]_vars

C32_Witness ==
    /\ lastEvent.kind = "mouseleave"
    /\ activeSpan = <<>>
    /\ Len(dom) > 1
    /\ helperDisplay = "block"
    /\ lastWordCache # <<>>
    /\ inflight # <<>>

\* both resolvers have been applied to the input on record
BothResolved == probe.result # "" /\ probe.hover # ""

\* C33 as stated: hover and click resolve words identically: for every text
\* and caret offset, the hover handler highlights a run if and only if the
\* click handler resolves a word at that offset, and the highlighted run
\* lower-cased equals the looked-up word.
C33_SameResolution ==
    BothResolved =>
        /\ probe.hover = "span" <=> probe.result = "word"
        /\ probe.hover = "span" => toLowerCase(probe.run) = probe.word

\* C34 as stated: every highlight span the hover controller creates wraps a
\* non-empty run of word characters; no mousemove at any caret offset,
\* including the offset equal to the text node's length, inserts an empty
\* span.
C34_NoEmptySpan ==
    \A i \in Spans :
        /\ spanTextContent(dom, i) # <<>>
        /\ \A k \in 1..Len(spanTextContent(dom, i)) :
              spanTextContent(dom, i)[k] \in WordChars

\* the last step resolved a click whose caret is in front of a word
\* character of its text node
ResolvedOnWord == lastEvent.kind = "resolve" /\ lastEvent.target = "word"

\* C35: word resolution does not depend on hover history: after any sequence
\* of hover wrap and unwrap operations on a surface, a click whose caret
\* falls on a character of a word resolves to the same word as in the
\* untouched surface (and to none where the untouched surface gives none).
C35_ResolutionIgnoresHover ==
    ResolvedOnWord =>
        /\ lastEvent.flag <=> clickResolves(probe.text, probe.offset)
        /\ lastEvent.flag =>
              lastEvent.word = clickWord(probe.text, probe.offset)

C35_Witness ==
    /\ ResolvedOnWord
    /\ lastEvent.flag
    /\ lastEvent.word = clickWord(probe.text, probe.offset)
    /\ probe.result = "outside"
    /\ probe.offset >= 2
    /\ Len(dom) = 5
    /\ activeSpan # <<>>

\* the last step was a call of fetchStatus: an interval tick, the initial
\* timeout, or a click on the button whose listener got as far as the call
FetchStatusCall ==
    \/ lastEvent.kind \in {"tick", "timeout"}
    \/ lastEvent.kind = "refresh_click" /\ lastEvent.target = "element"

\* C36: in the assessment-status poller at most one status request is
\* outstanding at any time: a call to fetchStatus (interval tick, initial
\* timeout or button) made while a request is in flight issues no request.
C36_OneRequestAtATime ==
    [][ /\ Len(poller'.requests) <= 1
        /\ (FetchStatusCall' /\ poller.isRequestInFlight) =>
              /\ poller'.requests = poller.requests
              /\ poller'.issued = poller.issued
              /\ ~lastEvent'.flag ]_vars

C36_Witness ==
    /\ lastEvent.kind = "tick"
    /\ ~lastEvent.flag
    /\ poller.requests = <<"json">>
    /\ poller.isRequestInFlight
    /\ ~poller.initialTimeout
    /\ poller.issued = 2

\* the last step ran a request's chain to its end
StatusSettled == lastEvent.kind = "status_settle"

\* C37: whenever a status request settles, whether by a normal response, a
\* transport or parse failure, or an exception thrown inside the response
\* handler, isRequestInFlight is reset to false, so a later poll can always
\* issue a new request and polling is never blocked forever: the flag is set
\* exactly while a request is outstanding, and a call of fetchStatus made
\* with the flag reset issues a request.
C37_FlagResetOnSettle ==
    [][ /\ StatusSettled' => ~poller'.isRequestInFlight
        /\ poller'.isRequestInFlight <=> poller'.requests # <<>>
        /\ (FetchStatusCall' /\ ~poller.isRequestInFlight) =>
              /\ poller'.requests = <<"fetch">>
              /\ lastEvent'.flag ]_vars

C37_Witness ==
    /\ lastEvent.kind = "tick"
    /\ lastEvent.flag
    /\ poller.requests = <<"fetch">>
    /\ poller.issued = 3
    /\ poller.pollingInterval
    /\ poller.stopStatus = "ERROR"

\* C38 as stated: after a status response of REDIRECT with a redirect URL,
\* or of ERROR, periodic polling is stopped: the polling interval is cleared
\* and no later interval tick issues a status request.
C38_StopsOnRedirectOrError ==
    poller.stopStatus # "" =>
        /\ ~poller.pollingInterval
        /\ ~(lastEvent.kind = "tick" /\ lastEvent.flag)

\* the last step was a click on the burger button
BurgerClick == lastEvent.kind = "chrome_click" /\ lastEvent.target = "burger"

\* C39 as stated: after any sequence of burger clicks, outside clicks, Escape
\* presses and window resizes, the mobile menu's isOpen flag is true exactly
\* when the menu carries its open class, so one burger click always opens a
\* closed menu.
C39_FlagMatchesClass ==
    /\ nav.isOpen <=> nav.openClass
    /\ (BurgerClick /\ ~lastEvent.flag) => nav.openClass

\* C40 as stated: when no theme is saved in localStorage at page load,
\* ThemeSwitcher applies the system colour scheme (dark if the system
\* prefers dark, otherwise light), and a later system colour-scheme change
\* is followed as long as the user has not explicitly chosen a theme.
C40_FollowsSystemTheme ==
    (theme.built /\ ~theme.savedAtLoad /\ ~theme.chosen)
        => theme.attr = systemTheme(theme.systemDark)

====
